---- MODULE Spec2Model ----
(***************************************************************************)
(* Conway's Game of Life engine of hrosicka/game-of-life-python.           *)
(* The engine is the GameOfLife class that every variant file repeats: a   *)
(* height x width int8 grid, a generation counter, a bounds-checked        *)
(* seeding loop, a neighbour count obtained by a 3x3 convolution under a   *)
(* 'fill' or 'wrap' boundary, and the B3/S23 step.                         *)
(***************************************************************************)
EXTENDS Integers, Sequences, FiniteSets, TLC

(***************************************************************************)
(* Bounds of the model.                                                    *)
(***************************************************************************)
\* largest height and width an engine is constructed with
MaxDim == 3
\* cap on the generation counter (Advance is disabled beyond it)
MaxGen == 2
\* cap on the number of Seed calls made on one engine
MaxSeeds == 2
\* longest coordinate list handed to one Seed call
MaxPatternLen == 2
\* largest height and width of a board a named pattern is placed on
MaxBoard == 7
\* largest number of cells of a grid whose every content is enumerated
MaxCells == 9

VARIABLES
    pc,          \* "none": no engine yet; "ready": engine constructed; "failed": constructor raised
    height,      \* self.height / cfg.height
    width,       \* self.width / cfg.width
    boundary,    \* cfg.boundary: "fill" or "wrap"
    grid,        \* self.grid: [0..height-1 -> [0..width-1 -> int8]]
    generation,  \* self.generation
    err,         \* exception raised by the last call, "none" if it returned
    op,          \* history: name of the last call
    args,        \* history: arguments of the last call
    prev,        \* history: self.grid as it was when the last call started
    advances,    \* history: number of Advance calls made on the engine
    seeds,       \* history: number of Seed calls made on the engine
    seeded,      \* history: in-bounds targets of all Seed calls so far
    variant,     \* the program whose run_simulation()/run() is executing, "none" outside a call
    rpc,         \* position of run_simulation()/run(): "idle" outside a call
    raised,      \* exception raised inside the call and the position it was raised at
    entry,       \* history: self.grid and self.generation when the call started
    shown,       \* history: the Texts handed to the live display, in order
    console,     \* history: what console.print was called with, by kind of message
    text         \* the Text last built by get_grid_text() / render()

vars == <<pc, height, width, boundary, grid, generation, err,
          op, args, prev, advances, seeds, seeded,
          variant, rpc, raised, entry, shown, console, text>>

\* the variables of the driver loop
driver == <<variant, rpc, raised, entry, shown, console, text>>

NoException == [kind |-> "none", at |-> "idle"]

\* nothing has been rendered yet
NoText == [cells |-> <<>>, height |-> 0, width |-> 0, generation |-> 0]

\* no run_simulation()/run() call has been made
DriverIdle ==
    /\ variant = "none"
    /\ rpc = "idle"
    /\ raised = NoException
    /\ entry = [grid |-> <<>>, generation |-> 0]
    /\ shown = <<>>
    /\ console = <<>>
    /\ text = NoText

BoundaryModes == {"fill", "wrap"}

(***************************************************************************)
(* numpy helpers                                                           *)
(***************************************************************************)
\* x.astype(np.int8): two's-complement wrap into -128..127
int8(x) == ((x + 128) % 256) - 128

\* variant: the shape given as (width, height)
np_zeros_swapped(h, w) == [r \in 0..(w - 1) |-> [c \in 0..(h - 1) |-> 0]]

\* np.zeros((h, w), dtype=np.int8), for h >= 0 and w >= 0
np_zeros(h, w) == [r \in 0..(h - 1) |-> [c \in 0..(w - 1) |-> 0]]

Rows(g) == DOMAIN g
Cols(g) == IF DOMAIN g = {} THEN {} ELSE DOMAIN g[0]
Cells(h, w) == (0..(h - 1)) \X (0..(w - 1))

\* numpy index normalisation: a negative index counts from the end
NormIndex(i, n) == IF i < 0 THEN i + n ELSE i

\* self.grid[r, c] = 1 : the write, or IndexError when the index is out of range
SetItem(st, r, c, h, w) ==
    LET rr == NormIndex(r, h)
        cc == NormIndex(c, w)
    IN  IF rr \in 0..(h - 1) /\ cc \in 0..(w - 1)
        THEN [st EXCEPT !.g = [st.g EXCEPT ![rr][cc] = 1]]
        ELSE [st EXCEPT !.exc = "IndexError"]

(***************************************************************************)
(* __init__                                                                *)
(***************************************************************************)
\* np.zeros raises ValueError("negative dimensions are not allowed");
\* the constructor itself checks nothing
ZerosRaises(h, w) == h < 0 \/ w < 0

\* self.generation = 0
InitialGeneration == 0

Create(h, w, b) ==
    /\ pc = "none"
    /\ op' = "create"
    /\ args' = [h |-> h, w |-> w, b |-> b]
    /\ prev' = grid
    /\ IF ZerosRaises(h, w)
       THEN /\ pc' = "failed"
            /\ err' = "ValueError"
            /\ UNCHANGED <<height, width, boundary, grid, generation>>
       ELSE /\ pc' = "ready"
            /\ err' = "none"
            /\ height' = h
            /\ width' = w
            /\ boundary' = b
            /\ grid' = np_zeros(h, w)
            /\ generation' = InitialGeneration
    /\ UNCHANGED <<advances, seeds, seeded>>
    /\ UNCHANGED driver

(***************************************************************************)
(* set_initial_pattern / seed_pattern                                      *)
(***************************************************************************)
\* variant: the lower bounds of the test left out
InBounds_no_lower(r, c, h, w) == r < h /\ c < w

\* if 0 <= r < self.height and 0 <= c < self.width
InBounds(r, c, h, w) == 0 <= r /\ r < h /\ 0 <= c /\ c < w

\* the loop over pattern_coords, from element i on; st = [g, exc]
RECURSIVE SeedLoop(_, _, _, _, _, _, _)
SeedLoop(st, coords, i, row_offset, col_offset, h, w) ==
    IF i > Len(coords) \/ st.exc # "none"
    THEN st
    ELSE LET r == coords[i][1] + row_offset
             c == coords[i][2] + col_offset
             nxt == IF InBounds(r, c, h, w) THEN SetItem(st, r, c, h, w) ELSE st
         IN  SeedLoop(nxt, coords, i + 1, row_offset, col_offset, h, w)

\* variant: the grid is cleared before the pattern is written
set_initial_pattern_reset(g, coords, row_offset, col_offset, h, w) ==
    SeedLoop([g |-> np_zeros(h, w), exc |-> "none"], coords, 1, row_offset, col_offset, h, w)

\* variant: the row offset added to the column and the column offset to the row
set_initial_pattern_swapped(g, coords, row_offset, col_offset, h, w) ==
    SeedLoop([g |-> g, exc |-> "none"], coords, 1, col_offset, row_offset, h, w)

set_initial_pattern(g, coords, row_offset, col_offset, h, w) ==
    SeedLoop([g |-> g, exc |-> "none"], coords, 1, row_offset, col_offset, h, w)

\* history only: the targets of a call that lie inside the grid
InBoundsTargets(coords, row_offset, col_offset, h, w) ==
    { t \in Cells(h, w) :
        \E i \in 1..Len(coords) :
            t = <<coords[i][1] + row_offset, coords[i][2] + col_offset>> }

Seed(coords, row_offset, col_offset) ==
    /\ pc = "ready"
    /\ seeds < MaxSeeds
    /\ LET res == set_initial_pattern(grid, coords, row_offset, col_offset, height, width)
       IN  /\ grid' = res.g
           /\ err' = res.exc
    /\ op' = "seed"
    /\ args' = [coords |-> coords, row_offset |-> row_offset, col_offset |-> col_offset]
    /\ prev' = grid
    /\ seeds' = seeds + 1
    /\ seeded' = seeded \cup InBoundsTargets(coords, row_offset, col_offset, height, width)
    /\ UNCHANGED <<pc, height, width, boundary, generation, advances>>
    /\ UNCHANGED driver

(***************************************************************************)
(* _get_live_neighbor_count / _get_neighbor_counts                         *)
(***************************************************************************)
\* variant: a kernel that counts the centre cell
kernel_with_centre == [i \in 0..2 |-> [j \in 0..2 |-> 1]]

\* np.array([[1, 1, 1], [1, 0, 1], [1, 1, 1]], dtype=np.int8)
kernel == [i \in 0..2 |-> [j \in 0..2 |-> IF i = 1 /\ j = 1 THEN 0 ELSE 1]]

\* variant: zero padding whatever the boundary mode
Extended_fill_only(g, r, c, b) ==
    IF InBounds(r, c, Cardinality(Rows(g)), Cardinality(Cols(g))) THEN g[r][c] ELSE 0

\* the input as convolve2d sees it outside its own index range:
\* boundary='fill' pads with fillvalue 0, boundary='wrap' is circular
Extended(g, r, c, b) ==
    LET h == Cardinality(Rows(g))
        w == Cardinality(Cols(g))
    IN  IF b = "wrap"
        THEN g[r % h][c % w]
        ELSE IF InBounds(r, c, h, w) THEN g[r][c] ELSE 0

\* one product of the convolution sum: kernel[i][j] * in[r + 1 - i][c + 1 - j]
ConvTerm(g, r, c, i, j, b) == kernel[i][j] * Extended(g, r + 1 - i, c + 1 - j, b)

\* convolve2d(grid, kernel, mode='same', boundary=b) at output cell (r, c)
ConvAt(g, r, c, b) ==
      ConvTerm(g, r, c, 0, 0, b) + ConvTerm(g, r, c, 0, 1, b) + ConvTerm(g, r, c, 0, 2, b)
    + ConvTerm(g, r, c, 1, 0, b) + ConvTerm(g, r, c, 1, 1, b) + ConvTerm(g, r, c, 1, 2, b)
    + ConvTerm(g, r, c, 2, 0, b) + ConvTerm(g, r, c, 2, 1, b) + ConvTerm(g, r, c, 2, 2, b)

get_live_neighbor_count(g, b) ==
    [r \in Rows(g) |-> [c \in Cols(g) |-> int8(ConvAt(g, r, c, b))]]

(***************************************************************************)
(* next_generation / step                                                  *)
(***************************************************************************)
\* variant: survival on 3 neighbours only
survival_mask_only3(g, neighbors, r, c) ==
    g[r][c] = 1 /\ neighbors[r][c] = 3

\* variant: survival on 2 or more neighbours
survival_mask_at_least2(g, neighbors, r, c) ==
    g[r][c] = 1 /\ neighbors[r][c] >= 2

\* (self.grid == 1) & ((neighbors == 2) | (neighbors == 3))
survival_mask(g, neighbors, r, c) ==
    g[r][c] = 1 /\ (neighbors[r][c] = 2 \/ neighbors[r][c] = 3)

\* variant: birth on 3 or more neighbours
reproduction_mask_at_least3(g, neighbors, r, c) ==
    g[r][c] = 0 /\ neighbors[r][c] >= 3

\* (self.grid == 0) & (neighbors == 3)
reproduction_mask(g, neighbors, r, c) ==
    g[r][c] = 0 /\ neighbors[r][c] = 3

\* variant: the cells updated one after the other in row-major order in the
\* grid itself, so that a count reads cells already updated in the same step
RECURSIVE InPlaceFrom(_, _, _)
InPlaceFrom(g, b, k) ==
    LET h == Cardinality(Rows(g))
        w == Cardinality(Cols(g))
    IN  IF k >= h * w THEN g
        ELSE LET r == k \div w
                 c == k % w
                 n == int8(ConvAt(g, r, c, b))
                 v == IF (g[r][c] = 1 /\ n \in {2, 3}) \/ (g[r][c] = 0 /\ n = 3) THEN 1 ELSE 0
             IN  InPlaceFrom([g EXCEPT ![r][c] = v], b, k + 1)

NextGrid_in_place(g, b) == InPlaceFrom(g, b, 0)

\* variant: a surviving cell keeps count of its age instead of staying 1
NextGrid_aging(g, b) ==
    LET neighbors == get_live_neighbor_count(g, b)
    IN  [r \in Rows(g) |-> [c \in Cols(g) |->
            IF survival_mask(g, neighbors, r, c) THEN g[r][c] + 1
            ELSE IF reproduction_mask(g, neighbors, r, c) THEN 1 ELSE 0]]

\* (survival_mask | reproduction_mask).astype(np.int8)
NextGrid(g, b) ==
    LET neighbors == get_live_neighbor_count(g, b)
    IN  [r \in Rows(g) |-> [c \in Cols(g) |->
            IF survival_mask(g, neighbors, r, c) \/ reproduction_mask(g, neighbors, r, c)
            THEN 1 ELSE 0]]

\* variant: the increment left out
NextGeneration_stuck(n) == n

\* self.generation += 1
NextGeneration(n) == n + 1

\* variant: an engine whose grid has died out cannot be advanced any more
next_generation_halts ==
    /\ pc = "ready"
    /\ generation < MaxGen
    /\ \E r \in Rows(grid) : \E c \in Cols(grid) : grid[r][c] = 1
    /\ grid' = NextGrid(grid, boundary)
    /\ generation' = NextGeneration(generation)
    /\ err' = "none"
    /\ op' = "advance"
    /\ args' = <<>>
    /\ prev' = grid
    /\ advances' = advances + 1
    /\ UNCHANGED <<pc, height, width, boundary, seeds, seeded>>
    /\ UNCHANGED driver

next_generation ==
    /\ pc = "ready"
    /\ generation < MaxGen
    /\ grid' = NextGrid(grid, boundary)
    /\ generation' = NextGeneration(generation)
    /\ err' = "none"
    /\ op' = "advance"
    /\ args' = <<>>
    /\ prev' = grid
    /\ advances' = advances + 1
    /\ UNCHANGED <<pc, height, width, boundary, seeds, seeded>>
    /\ UNCHANGED driver

(***************************************************************************)
(* Inputs                                                                  *)
(***************************************************************************)
\* heights and widths handed to the constructor
Dims == (-1)..MaxDim
\* heights and widths np.zeros accepts
GridDims == 0..MaxDim
\* coordinates of a pattern entry and placement offsets: with the offsets
\* added the targets range over -2..MaxDim, on both sides of every grid
CoordVals == (-1)..(MaxDim - 1)
OffsetVals == {-1, 0, 1}

RECURSIVE SeqsUpTo(_, _)
SeqsUpTo(S, n) ==
    IF n = 0 THEN {<<>>}
    ELSE LET shorter == SeqsUpTo(S, n - 1)
         IN  shorter \cup { Append(s, x) : s \in shorter, x \in S }

Patterns == SeqsUpTo(CoordVals \X CoordVals, MaxPatternLen)

\* the two corners of the largest grid, the pattern entries of the engine's life
CornerCoords == { <<0, 0>>, <<MaxDim - 1, MaxDim - 1>> }
CornerPatterns == SeqsUpTo(CornerCoords, MaxPatternLen)
CornerOffsets == { <<0, 0>>, <<0, 1>> }

(***************************************************************************)
(* Spec: the engine's life. Construct, then Seed and Advance in any order. *)
(***************************************************************************)
Init ==
    /\ pc = "none"
    /\ height = 0
    /\ width = 0
    /\ boundary = "fill"
    /\ grid = np_zeros(0, 0)
    /\ generation = 0
    /\ err = "none"
    /\ op = "none"
    /\ args = <<>>
    /\ prev = np_zeros(0, 0)
    /\ advances = 0
    /\ seeds = 0
    /\ seeded = {}
    /\ DriverIdle

Next ==
    \/ \E h \in Dims, w \in Dims, b \in BoundaryModes : Create(h, w, b)
    \/ \E coords \in CornerPatterns, off \in CornerOffsets : Seed(coords, off[1], off[2])
    \/ next_generation

Spec == Init /\ [][Next]_vars

(***************************************************************************)
(* SpecSeed: one Seed call on a freshly constructed engine, over every     *)
(* coordinate list and offset of the input sets.                           *)
(***************************************************************************)
\* the state __init__ leaves behind for dimensions np.zeros accepts
Fresh(h, w, b) ==
    /\ pc = "ready"
    /\ height = h
    /\ width = w
    /\ boundary = b
    /\ grid = np_zeros(h, w)
    /\ generation = InitialGeneration
    /\ err = "none"
    /\ op = "create"
    /\ args = [h |-> h, w |-> w, b |-> b]
    /\ prev = np_zeros(0, 0)
    /\ advances = 0
    /\ seeds = 0
    /\ seeded = {}
    /\ DriverIdle

\* set_initial_pattern never reads the boundary mode: one mode is drawn
InitSeed == \E h \in GridDims, w \in GridDims : Fresh(h, w, "fill")

NextSeed ==
    /\ seeds = 0
    /\ \E coords \in Patterns, ro \in OffsetVals, co \in OffsetVals : Seed(coords, ro, co)

SpecSeed == InitSeed /\ [][NextSeed]_vars

(***************************************************************************)
(* SpecRule: Advance from every binary grid. Every binary grid is the      *)
(* result of seeding a fresh engine with the list of its live cells.       *)
(***************************************************************************)
\* the cells of S as a list in some order
RECURSIVE AsList(_)
AsList(S) ==
    IF S = {} THEN <<>>
    ELSE LET x == CHOOSE y \in S : \A z \in S : y[1] < z[1] \/ (y[1] = z[1] /\ y[2] <= z[2])
         IN  <<x>> \o AsList(S \ {x})

Seeded(h, w, b, live) ==
    /\ pc = "ready"
    /\ height = h
    /\ width = w
    /\ boundary = b
    /\ grid = set_initial_pattern(np_zeros(h, w), AsList(live), 0, 0, h, w).g
    /\ generation = InitialGeneration
    /\ err = "none"
    /\ op = "seed"
    /\ args = [coords |-> AsList(live), row_offset |-> 0, col_offset |-> 0]
    /\ prev = np_zeros(h, w)
    /\ advances = 0
    /\ seeds = 1
    /\ seeded = live
    /\ DriverIdle

\* the shapes of at most MaxCells cells, from 1 x MaxCells to MaxCells x 1
SmallShapes == { s \in (1..MaxCells) \X (1..MaxCells) : s[1] * s[2] <= MaxCells }

InitRule ==
    \E s \in SmallShapes, b \in BoundaryModes :
        \E live \in SUBSET Cells(s[1], s[2]) : Seeded(s[1], s[2], b, live)

NextRule == next_generation

SpecRule == InitRule /\ [][NextRule]_vars

(***************************************************************************)
(* SpecPattern: Advance from the named patterns of the variants and their  *)
(* tests, each seeded on a fresh engine by one Seed call.                  *)
(***************************************************************************)
\* the state after GameOfLife(config) and one set_initial_pattern call
SeededAt(h, w, b, coords, row_offset, col_offset) ==
    /\ pc = "ready"
    /\ height = h
    /\ width = w
    /\ boundary = b
    /\ grid = set_initial_pattern(np_zeros(h, w), coords, row_offset, col_offset, h, w).g
    /\ generation = InitialGeneration
    /\ err = "none"
    /\ op = "seed"
    /\ args = [coords |-> coords, row_offset |-> row_offset, col_offset |-> col_offset]
    /\ prev = np_zeros(h, w)
    /\ advances = 0
    /\ seeds = 1
    /\ seeded = InBoundsTargets(coords, row_offset, col_offset, h, w)
    /\ DriverIdle

\* three cells in row r, from column c on
BlinkerCoords(r, c) == << <<r, c>>, <<r, c + 1>>, <<r, c + 2>> >>

\* a solid 2x2 block with its top-left cell at (r, c)
BlockCoords(r, c) == << <<r, c>>, <<r, c + 1>>, <<r + 1, c>>, <<r + 1, c + 1>> >>

\* coords of test_toad_oscillation_period_2, on a ToadSize x ToadSize grid
ToadCoords == << <<2, 2>>, <<2, 3>>, <<2, 4>>, <<3, 1>>, <<3, 2>>, <<3, 3>> >>
ToadSize == 6

\* BEACON_PATTERN_COORDS, placed by the test at offset (1, 1) of an
\* BeaconSize x BeaconSize grid
BeaconCoords ==
    << <<0, 0>>, <<0, 1>>, <<1, 0>>, <<1, 1>>, <<2, 2>>, <<2, 3>>, <<3, 2>>, <<3, 3>> >>
BeaconSize == 8
BeaconOffset == 1

BoardDims == 1..MaxBoard

InitPattern ==
    \/ \E h \in BoardDims, w \in BoardDims, b \in BoundaryModes :
          \E r \in 0..(h - 1), c \in 0..(w - 3) : SeededAt(h, w, b, BlinkerCoords(r, c), 0, 0)
    \/ \E h \in BoardDims, w \in BoardDims, b \in BoundaryModes :
          \E r \in 0..(h - 2), c \in 0..(w - 2) : SeededAt(h, w, b, BlockCoords(r, c), 0, 0)
    \/ SeededAt(ToadSize, ToadSize, "wrap", ToadCoords, 0, 0)
    \/ SeededAt(BeaconSize, BeaconSize, "fill", BeaconCoords, BeaconOffset, BeaconOffset)
    \/ \E n \in BoardDims, b \in BoundaryModes : SeededAt(n, n, b, << <<0, 0>> >>, 0, 0)

NextPattern == next_generation

SpecPattern == InitPattern /\ [][NextPattern]_vars

(***************************************************************************)
(* SpecRender: rendering and Advance in any order, from every small grid.  *)
(***************************************************************************)
\* self.live_char if cell == 1 else self.dead_char
CellChar(cell) == IF cell = 1 THEN "O" ELSE " "

\* the Text get_grid_text() builds: one character per cell, the dimensions
\* and the generation
GridText(g, gen, h, w) ==
    [cells |-> [r \in Rows(g) |-> [c \in Cols(g) |-> CellChar(g[r][c])]],
     height |-> h, width |-> w, generation |-> gen]

\* variant: rendering consumes the grid
get_grid_text_clears ==
    /\ pc = "ready"
    /\ text' = GridText(grid, generation, height, width)
    /\ grid' = np_zeros(height, width)
    /\ err' = "none"
    /\ op' = "render"
    /\ args' = <<>>
    /\ prev' = grid
    /\ UNCHANGED <<pc, height, width, boundary, generation, advances, seeds, seeded>>
    /\ UNCHANGED <<variant, rpc, raised, entry, shown, console>>

\* game.get_grid_text() / game.render()
get_grid_text ==
    /\ pc = "ready"
    /\ text' = GridText(grid, generation, height, width)
    /\ err' = "none"
    /\ op' = "render"
    /\ args' = <<>>
    /\ prev' = grid
    /\ UNCHANGED <<pc, height, width, boundary, grid, generation, advances, seeds, seeded>>
    /\ UNCHANGED <<variant, rpc, raised, entry, shown, console>>

InitRender == InitRule

NextRender ==
    \/ get_grid_text
    \/ next_generation

SpecRender == InitRender /\ [][NextRender]_vars

(***************************************************************************)
(* SpecRun: the driver loop run_simulation() / run() of the programs, on a *)
(* seeded engine. The display (rich.live.Live) is the environment: it may  *)
(* fail on entry and on update, and the user may interrupt at any point.   *)
(***************************************************************************)
\* largest number of cells of a grid the driver loop is run on
MaxRunCells == 4

\* the engine's variables and their histories
engine == <<pc, height, width, boundary, grid, generation, err,
            op, args, prev, advances, seeds, seeded>>

\* the programs; "collision" is GliderCollisionGame of game-of-life-blinker.py
Variants ==
    {"beacon", "blinker", "toad", "pulsar", "gun", "lwss", "glider", "r-pentomino", "collision"}

\* the boundary argument each program hands to convolve2d
BoundaryOf(v) ==
    IF v \in {"beacon", "gun", "collision"} THEN {"fill"}
    ELSE IF v = "r-pentomino" THEN BoundaryModes
    ELSE {"wrap"}

\* variant: every program written like the R-pentomino's loop
LoopOrder_update_first(v) == <<"update", "step", "sleep">>

\* variant: every program written like the Beacon's loop
LoopOrder_step_first(v) == <<"step", "update", "sleep">>

\* the statements of the body of `while True`, in order
LoopOrder(v) ==
    IF v = "glider" THEN <<"update", "sleep", "step">>
    ELSE IF v \in {"r-pentomino", "collision"} THEN <<"update", "step", "sleep">>
    ELSE <<"step", "update", "sleep">>

\* the statement executed after statement x of the loop body
After(v, x) ==
    LET i == CHOOSE j \in 1..3 : LoopOrder(v)[j] = x
    IN  LoopOrder(v)[(i % 3) + 1]

\* variant: only `except KeyboardInterrupt`, as in the gun
Handlers_interrupt_only(v) == {"KeyboardInterrupt"}

\* variant: no `except KeyboardInterrupt` clause
Handlers_without_interrupt(v) ==
    IF v \in {"beacon", "blinker", "toad", "pulsar", "r-pentomino"} THEN {"Exception"} ELSE {}

\* the except clauses of the try statement
Handlers(v) ==
    {"KeyboardInterrupt"} \cup
    (IF v \in {"beacon", "blinker", "toad", "pulsar", "r-pentomino"} THEN {"Exception"} ELSE {})

\* positions of the call at which it is executing; "start" lies before `try`
Running == {"start", "enter", "step", "counter", "update", "sleep"}

\* where the call ends up when an exception of this kind is raised at position at
Outcome(v, kind, at) ==
    IF at # "start" /\ kind \in Handlers(v) THEN "returned" ELSE "raised"

\* the programs that print a message before `try`; the others only clear
PrintsBanner == {"beacon", "blinker", "toad", "pulsar", "gun", "r-pentomino"}

\* the console after an exception of this kind raised at position at: the
\* handler that catches it prints one message
Printed(out, v, kind, at) ==
    IF Outcome(v, kind, at) = "returned"
    THEN Append(out, IF kind = "KeyboardInterrupt" THEN "terminated" ELSE "error")
    ELSE out

\* game.run_simulation() / sim.run() is called
run_simulation(v) ==
    /\ pc = "ready"
    /\ rpc = "idle"
    /\ boundary \in BoundaryOf(v)
    /\ variant' = v
    /\ rpc' = "start"
    /\ entry' = [grid |-> grid, generation |-> generation]
    /\ UNCHANGED <<raised, shown, console, text>>
    /\ UNCHANGED engine

\* console.clear() / console.print(...) / time.sleep(1), before `try`
Banner ==
    /\ rpc = "start"
    /\ rpc' = "enter"
    /\ console' = IF variant \in PrintsBanner THEN Append(console, "banner") ELSE console
    /\ UNCHANGED <<variant, raised, entry, shown, text>>
    /\ UNCHANGED engine

\* variant: the display constructed without a first renderable
EnterLive_blank ==
    /\ rpc = "enter"
    /\ rpc' = LoopOrder(variant)[1]
    /\ UNCHANGED <<variant, raised, entry, shown, console, text>>
    /\ UNCHANGED engine

\* with Live(self.get_grid_text(), ...) as live: the display receives the
\* current grid and is entered
EnterLive ==
    /\ rpc = "enter"
    /\ shown' = Append(shown, GridText(grid, generation, height, width))
    /\ rpc' = LoopOrder(variant)[1]
    /\ text' = GridText(grid, generation, height, width)
    /\ UNCHANGED <<variant, raised, entry, console>>
    /\ UNCHANGED engine

\* next_generation() up to and including `self.grid = ...`
AssignGrid ==
    /\ rpc = "step"
    /\ generation < MaxGen
    /\ prev' = grid
    /\ grid' = NextGrid(grid, boundary)
    /\ rpc' = "counter"
    /\ UNCHANGED <<pc, height, width, boundary, generation, err, op, args,
                   advances, seeds, seeded>>
    /\ UNCHANGED <<variant, raised, entry, shown, console, text>>

\* `self.generation += 1`, the last statement of next_generation()
IncrementGeneration ==
    /\ rpc = "counter"
    /\ generation' = NextGeneration(generation)
    /\ err' = "none"
    /\ op' = "advance"
    /\ args' = <<>>
    /\ advances' = advances + 1
    /\ rpc' = After(variant, "step")
    /\ UNCHANGED <<pc, height, width, boundary, grid, prev, seeds, seeded>>
    /\ UNCHANGED <<variant, raised, entry, shown, console, text>>

\* live.update(self.get_grid_text())
Update ==
    /\ rpc = "update"
    /\ shown' = Append(shown, GridText(grid, generation, height, width))
    /\ rpc' = After(variant, "update")
    /\ text' = GridText(grid, generation, height, width)
    /\ UNCHANGED <<variant, raised, entry, console>>
    /\ UNCHANGED engine

\* time.sleep(self.delay_seconds)
Sleep ==
    /\ rpc = "sleep"
    /\ rpc' = After(variant, "sleep")
    /\ UNCHANGED <<variant, raised, entry, shown, console, text>>
    /\ UNCHANGED engine

\* Ctrl+C: KeyboardInterrupt is raised at the current position of the call
KeyboardInterrupt ==
    /\ rpc \in Running
    /\ raised' = [kind |-> "KeyboardInterrupt", at |-> rpc]
    /\ rpc' = Outcome(variant, "KeyboardInterrupt", rpc)
    /\ console' = Printed(console, variant, "KeyboardInterrupt", rpc)
    /\ UNCHANGED <<variant, entry, shown, text>>
    /\ UNCHANGED engine

\* the display raises an ordinary exception, on entry or from update
DisplayFails ==
    /\ rpc \in {"enter", "update"}
    /\ raised' = [kind |-> "Exception", at |-> rpc]
    /\ rpc' = Outcome(variant, "Exception", rpc)
    /\ console' = Printed(console, variant, "Exception", rpc)
    /\ UNCHANGED <<variant, entry, shown, text>>
    /\ UNCHANGED engine

RunShapes == { s \in GridDims \X GridDims : s[1] >= 1 /\ s[2] >= 1 /\ s[1] * s[2] <= MaxRunCells }

InitRun ==
    \E s \in RunShapes, b \in BoundaryModes :
        \E live \in SUBSET Cells(s[1], s[2]) : Seeded(s[1], s[2], b, live)

NextRun ==
    \/ \E v \in Variants : run_simulation(v)
    \/ Banner
    \/ EnterLive
    \/ AssignGrid
    \/ IncrementGeneration
    \/ Update
    \/ Sleep
    \/ KeyboardInterrupt
    \/ DisplayFails

SpecRun == InitRun /\ [][NextRun]_vars

(***************************************************************************)
(* Vocabulary of the properties                                            *)
(***************************************************************************)
\* 1 when (r, c) lies inside the grid and is alive, 0 otherwise
AliveInside(g, r, c, h, w) ==
    IF r \in 0..(h - 1) /\ c \in 0..(w - 1) /\ g[r][c] = 1 THEN 1 ELSE 0

\* live cells among the Moore neighbours of (r, c) that lie inside the grid
ClampedCount(g, r, c, h, w) ==
      AliveInside(g, r - 1, c - 1, h, w) + AliveInside(g, r - 1, c, h, w)
    + AliveInside(g, r - 1, c + 1, h, w) + AliveInside(g, r, c - 1, h, w)
    + AliveInside(g, r, c + 1, h, w) + AliveInside(g, r + 1, c - 1, h, w)
    + AliveInside(g, r + 1, c, h, w) + AliveInside(g, r + 1, c + 1, h, w)

\* aliveness summed over the 8 offsets, rows and columns taken modulo the size
ToroidalCount(g, r, c, h, w) ==
      g[(r - 1) % h][(c - 1) % w] + g[(r - 1) % h][c % w] + g[(r - 1) % h][(c + 1) % w]
    + g[r % h][(c - 1) % w] + g[r % h][(c + 1) % w]
    + g[(r + 1) % h][(c - 1) % w] + g[(r + 1) % h][c % w] + g[(r + 1) % h][(c + 1) % w]

LiveNeighbours(g, r, c, h, w, b) ==
    IF b = "wrap" THEN ToroidalCount(g, r, c, h, w) ELSE ClampedCount(g, r, c, h, w)

LiveCells(g) == { t \in Cells(height, width) : g[t[1]][t[2]] = 1 }

\* targets of the last Seed call, one per pattern entry
Target(i) == <<args.coords[i][1] + args.row_offset, args.coords[i][2] + args.col_offset>>
OnGrid(t) == t[1] \in 0..(height - 1) /\ t[2] \in 0..(width - 1)

HasShape(g, h, w) ==
    /\ DOMAIN g = 0..(h - 1)
    /\ \A r \in 0..(h - 1) : DOMAIN g[r] = 0..(w - 1)

(***************************************************************************)
(* C1..C10                                                                 *)
(***************************************************************************)

\* C1: after Advance a cell is 1 iff it was alive with 2 or 3 live neighbours
\* or dead with exactly 3 live neighbours; every other cell is 0.
C1_AdvanceAppliesB3S23 ==
    op = "advance" =>
        \A t \in Cells(height, width) :
            LET n == LiveNeighbours(prev, t[1], t[2], height, width, boundary)
                was == prev[t[1]][t[2]]
            IN  grid[t[1]][t[2]] =
                    IF (was = 1 /\ n \in {2, 3}) \/ (was = 0 /\ n = 3) THEN 1 ELSE 0

\* an Advance in which one cell was born, one survived and one died
C1_Witness ==
    /\ op = "advance"
    /\ \E t \in Cells(height, width) : prev[t[1]][t[2]] = 0 /\ grid[t[1]][t[2]] = 1
    /\ \E t \in Cells(height, width) : prev[t[1]][t[2]] = 1 /\ grid[t[1]][t[2]] = 1
    /\ \E t \in Cells(height, width) : prev[t[1]][t[2]] = 1 /\ grid[t[1]][t[2]] = 0

\* C2: under boundary='fill' the neighbour count of every cell is the number
\* of live cells among its Moore neighbours inside the grid; positions outside
\* the grid add nothing and the cell itself is not counted.
C2_ClampedNeighborCounts ==
    (pc = "ready" /\ boundary = "fill") =>
        LET neighbors == get_live_neighbor_count(grid, boundary)
        IN  \A t \in Cells(height, width) :
                neighbors[t[1]][t[2]] = ClampedCount(grid, t[1], t[2], height, width)

\* the 3x3 grid with its only live cell at corner (0,0): count 1 at
\* (0,1), (1,0), (1,1) and 0 everywhere else
C2_Witness ==
    /\ pc = "ready" /\ boundary = "fill" /\ height = 3 /\ width = 3
    /\ LiveCells(grid) = {<<0, 0>>}
    /\ \A t \in Cells(3, 3) :
          get_live_neighbor_count(grid, "fill")[t[1]][t[2]]
              = IF t \in {<<0, 1>>, <<1, 0>>, <<1, 1>>} THEN 1 ELSE 0

\* C3: under boundary='wrap' the neighbour count of every cell is the sum over
\* the 8 offsets of the cell at ((r+dr) mod height, (c+dc) mod width).
C3_ToroidalNeighborCounts ==
    (pc = "ready" /\ boundary = "wrap") =>
        LET neighbors == get_live_neighbor_count(grid, boundary)
        IN  \A t \in Cells(height, width) :
                neighbors[t[1]][t[2]] = ToroidalCount(grid, t[1], t[2], height, width)

\* the only live cell sits in the last column of a 3x3 grid: the cells of
\* column 0 count it, which they would not without the wrap
C3_Witness ==
    /\ pc = "ready" /\ boundary = "wrap" /\ height = 3 /\ width = 3
    /\ LiveCells(grid) = {<<1, 2>>}
    /\ get_live_neighbor_count(grid, "wrap")[1][0] = 1
    /\ get_live_neighbor_count(grid, "wrap")[0][0] = 1
    /\ ClampedCount(grid, 1, 0, 3, 3) = 0

\* C4: an engine constructed with height > 0 and width > 0 has a height x width
\* grid of zeros and generation 0.
C4_FreshEngineAllDead ==
    (op = "create" /\ args.h > 0 /\ args.w > 0) =>
        /\ pc = "ready"
        /\ height = args.h
        /\ width = args.w
        /\ HasShape(grid, args.h, args.w)
        /\ \A t \in Cells(args.h, args.w) : grid[t[1]][t[2]] = 0
        /\ generation = 0

C4_Witness ==
    /\ op = "create" /\ pc = "ready"
    /\ args.h = 3 /\ args.w = 2
    /\ HasShape(grid, 3, 2)

\* C5: construction with height <= 0 or width <= 0 fails and leaves no engine.
C5_InvalidDimensionRejected ==
    (op = "create" /\ (args.h <= 0 \/ args.w <= 0)) => pc = "failed"

\* C6: Seed never raises; a target outside the grid writes no cell (a negative
\* index does not wrap to the opposite edge) and the targets inside the grid
\* are set to 1 by the same call.
C6_SeedSkipsOutOfBounds ==
    op = "seed" =>
        /\ err = "none"
        /\ HasShape(grid, height, width)
        /\ \A i \in 1..Len(args.coords) :
              OnGrid(Target(i)) => grid[Target(i)[1]][Target(i)[2]] = 1
        /\ \A t \in Cells(height, width) :
              grid[t[1]][t[2]] # prev[t[1]][t[2]]
                  => \E i \in 1..Len(args.coords) : Target(i) = t

\* a call placed one row up: its first target falls above the grid (row -1,
\* which numpy would read as the last row), its second entry lies below the
\* grid before the offset is added and on the grid after it
C6_Witness ==
    /\ op = "seed" /\ err = "none" /\ height >= 2 /\ width >= 2
    /\ args.row_offset = -1
    /\ \E i, j \in 1..Len(args.coords) :
          /\ Target(i)[1] = -1 /\ Target(i)[2] \in 0..(width - 1)
          /\ args.coords[j][1] = height
          /\ OnGrid(Target(j))
          /\ Target(j)[2] # Target(i)[2]
          /\ LiveCells(grid) = {Target(j)}

\* C7: Seed changes no cell other than its in-bounds targets, and after any
\* sequence of Seed calls on a fresh engine the live cells are exactly the
\* union of the in-bounds targets of all the calls.
C7_SeedIsAdditive ==
    /\ (pc = "ready" /\ advances = 0) => LiveCells(grid) = seeded
    /\ op = "seed" =>
          \A t \in Cells(height, width) :
              (\A i \in 1..Len(args.coords) : Target(i) # t)
                  => grid[t[1]][t[2]] = prev[t[1]][t[2]]

\* {(0,0)} seeded first, {(h-1,w-1)} second: exactly these two cells are alive
C7_Witness ==
    /\ op = "seed" /\ seeds = 2 /\ advances = 0
    /\ height = 3 /\ width = 3
    /\ LiveCells(prev) = {<<0, 0>>}
    /\ args.coords = << <<2, 2>> >> /\ args.row_offset = 0 /\ args.col_offset = 0
    /\ LiveCells(grid) = {<<0, 0>>, <<2, 2>>}

\* C8: on a fresh engine, cell (r,c) is alive after Seed(coords, rowOffset,
\* colOffset) iff (r - rowOffset, c - colOffset) is in coords.
C8_SeedPlacesAtOffset ==
    (op = "seed" /\ seeds = 1 /\ advances = 0) =>
        \A t \in Cells(height, width) :
            grid[t[1]][t[2]] = 1
                <=> \E i \in 1..Len(args.coords) :
                        args.coords[i] = <<t[1] - args.row_offset, t[2] - args.col_offset>>

\* a two-entry pattern placed with a positive row and a negative column offset
C8_Witness ==
    /\ op = "seed" /\ seeds = 1 /\ advances = 0
    /\ args.row_offset = 1 /\ args.col_offset = -1
    /\ Cardinality(LiveCells(grid)) = 2

\* C9: generation is 0 at construction, grows by 1 with every Advance and is
\* left alone by Seed: it always equals the number of Advance calls made.
C9_GenerationCountsAdvances ==
    pc = "ready" =>
        /\ generation = advances
        /\ op = "create" => generation = 0

\* a Seed call made after two Advance calls
C9_Witness ==
    /\ pc = "ready" /\ op = "seed" /\ seeds = 2
    /\ advances = 2 /\ generation = 2

\* C10: a live cell with 0, 1, or 4 or more live neighbours is 0 after Advance.
C10_UnderAndOverPopulationDie ==
    op = "advance" =>
        \A t \in Cells(height, width) :
            LET n == LiveNeighbours(prev, t[1], t[2], height, width, boundary)
            IN  (prev[t[1]][t[2]] = 1 /\ (n <= 1 \/ n >= 4)) => grid[t[1]][t[2]] = 0

\* an Advance that killed one cell for loneliness and one for crowding
C10_Witness ==
    /\ op = "advance" /\ boundary = "fill"
    /\ \E t \in Cells(height, width) :
          /\ prev[t[1]][t[2]] = 1 /\ grid[t[1]][t[2]] = 0
          /\ ClampedCount(prev, t[1], t[2], height, width) <= 1
    /\ \E t \in Cells(height, width) :
          /\ prev[t[1]][t[2]] = 1 /\ grid[t[1]][t[2]] = 0
          /\ ClampedCount(prev, t[1], t[2], height, width) >= 4

(***************************************************************************)
(* C11..C20                                                                *)
(***************************************************************************)

\* C11: a dead cell with exactly 3 live neighbours is 1 after Advance; a dead
\* cell with exactly 2 or exactly 4 live neighbours is still 0.
C11_BirthOnExactlyThree ==
    op = "advance" =>
        \A t \in Cells(height, width) :
            LET n == LiveNeighbours(prev, t[1], t[2], height, width, boundary)
            IN  prev[t[1]][t[2]] = 0 =>
                    /\ n = 3 => grid[t[1]][t[2]] = 1
                    /\ n \in {2, 4} => grid[t[1]][t[2]] = 0

\* an Advance with a dead cell of each kind: 3, 2 and 4 live neighbours
C11_Witness ==
    /\ op = "advance"
    /\ \E t \in Cells(height, width) :
          /\ prev[t[1]][t[2]] = 0 /\ grid[t[1]][t[2]] = 1
          /\ LiveNeighbours(prev, t[1], t[2], height, width, boundary) = 3
    /\ \E t \in Cells(height, width) :
          /\ prev[t[1]][t[2]] = 0 /\ grid[t[1]][t[2]] = 0
          /\ LiveNeighbours(prev, t[1], t[2], height, width, boundary) = 2
    /\ \E t \in Cells(height, width) :
          /\ prev[t[1]][t[2]] = 0 /\ grid[t[1]][t[2]] = 0
          /\ LiveNeighbours(prev, t[1], t[2], height, width, boundary) = 4

\* the cells of a list of coordinates
CellsOf(coords) == { coords[i] : i \in 1..Len(coords) }

\* every cell of S lies at least m cells inside the grid on every side
Margin(S, m) ==
    \A t \in S : /\ m <= t[1] /\ t[1] <= height - 1 - m
                 /\ m <= t[2] /\ t[2] <= width - 1 - m

\* C12: three live cells in row r, columns c..c+2, away from the edges of an
\* otherwise dead grid, become the three cells of column c+1, rows r-1..r+1
\* after one Advance and the original three after the second, in both modes.
C12_BlinkerPeriodTwo ==
    \A r \in 0..(height - 1), c \in 0..(width - 1) :
        LET horizontal == CellsOf(BlinkerCoords(r, c))
            vertical == { <<r - 1, c + 1>>, <<r, c + 1>>, <<r + 1, c + 1>> }
        IN  (pc = "ready" /\ seeded = horizontal /\ Margin(horizontal \cup vertical, 1)) =>
                /\ advances = 1 => LiveCells(grid) = vertical
                /\ advances = 2 => LiveCells(grid) = horizontal

\* the blinker of test_blinker_oscillation_period_2 back in place after two
\* Advance calls on the torus, having been vertical in between
C12_Witness ==
    /\ height = 5 /\ width = 5 /\ boundary = "wrap"
    /\ seeded = CellsOf(BlinkerCoords(2, 1))
    /\ advances = 2
    /\ LiveCells(prev) = { <<1, 2>>, <<2, 2>>, <<3, 2>> }
    /\ LiveCells(grid) = seeded

\* C13: under boundary='fill' a solid 2x2 block away from every edge of an
\* otherwise dead grid is left unchanged by Advance.
C13_BlockStillLife ==
    \A r \in 0..(height - 1), c \in 0..(width - 1) :
        (/\ pc = "ready" /\ boundary = "fill" /\ op = "advance"
         /\ seeded = CellsOf(BlockCoords(r, c))
         /\ Margin(seeded, 1)) =>
            /\ grid = prev
            /\ LiveCells(grid) = seeded

\* the block of test_block_still_life_beacon after one Advance
C13_Witness ==
    /\ height = 6 /\ width = 6 /\ boundary = "fill"
    /\ seeded = CellsOf(BlockCoords(1, 1))
    /\ op = "advance" /\ advances = 1
    /\ LiveCells(grid) = seeded

\* C14: the toad on the 6x6 torus differs from its initial grid after one
\* Advance and equals it after two.
C14_ToadPeriodTwo ==
    (/\ pc = "ready" /\ boundary = "wrap"
     /\ height = ToadSize /\ width = ToadSize
     /\ seeded = CellsOf(ToadCoords)) =>
        /\ advances = 1 => LiveCells(grid) # seeded
        /\ advances = 2 => LiveCells(grid) = seeded

C14_Witness ==
    /\ boundary = "wrap" /\ height = 6 /\ width = 6
    /\ seeded = CellsOf(ToadCoords)
    /\ advances = 2
    /\ LiveCells(prev) # seeded
    /\ LiveCells(grid) = seeded

\* the beacon as the test seeds it
BeaconCells == { <<t[1] + BeaconOffset, t[2] + BeaconOffset>> : t \in CellsOf(BeaconCoords) }

\* C15: the beacon seeded at offset (1,1) of the 8x8 grid under boundary='fill'
\* equals the seeded grid after two Advance calls.
C15_BeaconPeriodTwo ==
    (/\ pc = "ready" /\ boundary = "fill"
     /\ height = BeaconSize /\ width = BeaconSize
     /\ seeded = BeaconCells
     /\ advances = 2) =>
        LiveCells(grid) = seeded

\* two Advance calls made, the middle grid being the beacon's other phase
C15_Witness ==
    /\ boundary = "fill" /\ height = 8 /\ width = 8
    /\ seeded = BeaconCells
    /\ Cardinality(seeded) = 8
    /\ advances = 2
    /\ LiveCells(prev) = seeded \ { <<2, 2>>, <<3, 3>> }
    /\ LiveCells(grid) = seeded

\* C16: with the only live cell at corner (0,0) of an N x N grid, the count at
\* (N-1,N-1) under 'wrap' differs from the count under 'fill', for every N >= 1.
C16_BoundaryModesDiverge ==
    (/\ pc = "ready" /\ height = width /\ height >= 1
     /\ LiveCells(grid) = { <<0, 0>> }) =>
        get_live_neighbor_count(grid, "wrap")[height - 1][width - 1]
            # get_live_neighbor_count(grid, "fill")[height - 1][width - 1]

\* N = 4: the far corner counts the live corner through the wrap only
C16_Witness ==
    /\ pc = "ready" /\ height = 4 /\ width = 4
    /\ LiveCells(grid) = { <<0, 0>> }
    /\ get_live_neighbor_count(grid, "wrap")[3][3] = 1
    /\ get_live_neighbor_count(grid, "fill")[3][3] = 0

\* C17: in every state reachable from construction by Seed and Advance calls
\* the grid has the height x width shape given at construction and every cell
\* is 0 or 1.
C17_GridShapeAndBinary ==
    pc = "ready" =>
        /\ HasShape(grid, height, width)
        /\ \A t \in Cells(height, width) : grid[t[1]][t[2]] \in {0, 1}

\* a non-square grid, seeded and advanced, holding live and dead cells
C17_Witness ==
    /\ pc = "ready" /\ height # width
    /\ seeds >= 1 /\ advances >= 1 /\ op = "advance"
    /\ HasShape(grid, height, width)
    /\ \E t \in Cells(height, width) : grid[t[1]][t[2]] = 1
    /\ \E t \in Cells(height, width) : grid[t[1]][t[2]] = 0

\* C18: on an engine constructed with valid dimensions, after any Seed and
\* Advance calls and in either boundary mode, Advance can be called (up to the
\* model's cap MaxGen on the counter), completes without error and leaves an
\* engine that can be advanced again.
C18_AdvanceIsTotal ==
    (pc = "ready" /\ height >= 1 /\ width >= 1) =>
        /\ generation < MaxGen => ENABLED next_generation
        /\ op = "advance" => err = "none"

\* an Advance has wiped out a seeded torus, and Advance is enabled again
C18_Witness ==
    /\ pc = "ready" /\ height >= 1 /\ width >= 1 /\ boundary = "wrap"
    /\ seeds >= 1 /\ op = "advance" /\ err = "none"
    /\ \E t \in Cells(height, width) : prev[t[1]][t[2]] = 1
    /\ LiveCells(grid) = {}
    /\ generation < MaxGen
    /\ ENABLED next_generation

\* C19: after one Advance a cell that was alive and survives holds its
\* previous value plus 1, a cell that was dead and is born holds 1, and every
\* other cell holds 0.
C19_AgingValues ==
    op = "advance" =>
        \A t \in Cells(height, width) :
            LET n == LiveNeighbours(prev, t[1], t[2], height, width, boundary)
                was == prev[t[1]][t[2]]
            IN  grid[t[1]][t[2]] =
                    IF was >= 1 /\ n \in {2, 3} THEN was + 1
                    ELSE IF was = 0 /\ n = 3 THEN 1
                    ELSE 0

\* C20: a KeyboardInterrupt raised when the live display is entered or at any
\* later point of the loop makes run_simulation()/run() return normally; when
\* it is raised on entering the display, grid and generation are as they were
\* before the call.
C20_InterruptExitsCleanly ==
    (raised.kind = "KeyboardInterrupt" /\ raised.at # "start") =>
        /\ rpc = "returned"
        /\ raised.at = "enter" =>
               /\ grid = entry.grid
               /\ generation = entry.generation

\* the interrupt of test_run_simulation_handles_keyboard_interrupt, on an
\* engine holding live cells
C20_Witness ==
    /\ variant = "beacon"
    /\ raised = [kind |-> "KeyboardInterrupt", at |-> "enter"]
    /\ rpc = "returned"
    /\ LiveCells(grid) # {}
    /\ grid = entry.grid
    /\ generation = entry.generation

(***************************************************************************)
(* C21..C30                                                                *)
(***************************************************************************)

\* the rule applied n times to grid g
RECURSIVE RuleTimes(_, _, _)
RuleTimes(g, b, n) == IF n = 0 THEN g ELSE RuleTimes(NextGrid(g, b), b, n - 1)

\* C21: whenever run_simulation()/run() has ended because of an interrupt or a
\* failure of the display, raised at any point of the loop, the grid equals
\* the rule applied `generation` times to the grid the call started with.
C21_StopKeepsGridAndCounterInStep ==
    (rpc \in {"returned", "raised"} /\ raised.kind # "none") =>
        grid = RuleTimes(entry.grid, boundary, generation - entry.generation)

\* C22: in the Beacon and Blinker programs an ordinary exception raised by
\* the live display, on entry or from update, is caught: run_simulation prints
\* an error message and returns without raising.
C22_DisplayFailureIsCaught ==
    (variant \in {"beacon", "blinker"} /\ raised.kind = "Exception") =>
        /\ rpc = "returned"
        /\ Len(console) >= 1
        /\ console[Len(console)] = "error"

\* the display of the Blinker program failed in update, after a step
C22_Witness ==
    /\ variant = "blinker"
    /\ raised = [kind |-> "Exception", at |-> "update"]
    /\ advances >= 1
    /\ rpc = "returned"
    /\ console = <<"banner", "error">>

\* the step from one statement of the loop body to the next follows the
\* order a, b, c, with a the first statement after the display is entered
InOrder(a, b, c) ==
    rpc' \in {"step", "update", "sleep"} =>
        LET from == IF rpc = "counter" THEN "step" ELSE rpc
        IN  \/ from = "enter" /\ rpc' = a
            \/ from = a /\ rpc' = b
            \/ from = b /\ rpc' = c
            \/ from = c /\ rpc' = a

\* C23 as stated: in every program each iteration of the loop reads the grid
\* for display, then calls Advance, then waits.
C23_DisplayAdvanceWait == [][InOrder("update", "step", "sleep")]_vars

\* C23, amended: the order display, Advance, wait holds in the R-pentomino
\* and GliderCollisionGame loops; the Glider loop displays, waits, then calls
\* Advance; the Beacon, Blinker, Toad, Pulsar, Gun and LWSS loops call Advance,
\* then display, then wait.
C23_LoopOrderByVariant ==
    [][ /\ variant' \in {"r-pentomino", "collision"} => InOrder("update", "step", "sleep")
        /\ variant' = "glider" => InOrder("update", "sleep", "step")
        /\ variant' \in {"beacon", "blinker", "toad", "pulsar", "gun", "lwss"}
               => InOrder("step", "update", "sleep") ]_vars

\* the R-pentomino loop at the start of its second iteration: one update,
\* one Advance and one wait lie behind it
C23_Witness ==
    /\ variant = "r-pentomino"
    /\ rpc = "update"
    /\ advances = 1
    /\ shown = << GridText(entry.grid, entry.generation, height, width),
                 GridText(entry.grid, entry.generation, height, width) >>

\* C24: get_grid_text()/render() leaves the grid and the generation counter
\* unchanged, so the next Advance gives the same grid as without the call.
C24_RenderIsReadOnly ==
    [][get_grid_text =>
          /\ grid' = grid
          /\ generation' = generation
          /\ NextGrid(grid', boundary') = NextGrid(grid, boundary)]_vars

\* rendered after an Advance, with live cells on the grid and further
\* Advance calls to come
C24_Witness ==
    /\ op = "render"
    /\ advances = 1 /\ generation = 1
    /\ text = GridText(grid, generation, height, width)
    /\ prev = grid
    /\ LiveCells(grid) # {}
    /\ ENABLED next_generation

\* C25: for every cell of every reachable grid of at least 1x1, in either
\* boundary mode, the neighbour count lies in 0..8 and is the convolution sum
\* itself: the int8 cast changes nothing.
C25_CountsWithinZeroToEight ==
    (pc = "ready" /\ height >= 1 /\ width >= 1) =>
        LET neighbors == get_live_neighbor_count(grid, boundary)
        IN  \A t \in Cells(height, width) :
                /\ neighbors[t[1]][t[2]] \in 0..8
                /\ neighbors[t[1]][t[2]] = ConvAt(grid, t[1], t[2], boundary)

\* an Advance has filled a torus: every cell counts 8 live neighbours
C25_Witness ==
    /\ op = "advance" /\ boundary = "wrap"
    /\ height >= 2 /\ width >= 2
    /\ \A t \in Cells(height, width) :
           /\ grid[t[1]][t[2]] = 1
           /\ get_live_neighbor_count(grid, boundary)[t[1]][t[2]] = 8

\* the reference: the pre-step grid is copied, then the cells of the output
\* are written one after the other in row-major order, each from the copy
RECURSIVE ReferenceFrom(_, _, _, _, _, _)
ReferenceFrom(copy, out, h, w, b, k) ==
    IF k >= h * w THEN out
    ELSE LET r == k \div w
             c == k % w
             n == LiveNeighbours(copy, r, c, h, w, b)
             v == IF (copy[r][c] = 1 /\ n \in {2, 3}) \/ (copy[r][c] = 0 /\ n = 3) THEN 1 ELSE 0
         IN  ReferenceFrom(copy, [out EXCEPT ![r][c] = v], h, w, b, k + 1)

\* C26: the grid after Advance is the one the reference computes, which
\* decides every cell from the grid as it was before the step and never reads
\* a cell updated in the same step.
C26_AdvanceIsSynchronous ==
    op = "advance" => grid = ReferenceFrom(prev, prev, height, width, boundary, 0)

\* an Advance whose result an update in place would not have given
C26_Witness ==
    /\ op = "advance"
    /\ grid = ReferenceFrom(prev, prev, height, width, boundary, 0)
    /\ grid # InPlaceFrom(prev, boundary, 0)

\* live.update calls that returned; the first entry of shown is the grid the
\* Live constructor was given
UpdatesDone == Len(shown) - 1

\* C27: in the Beacon and Blinker programs, when the k-th update call of the
\* display fails, the generation counter has advanced by exactly k since
\* run_simulation started, and run_simulation returns without raising.
C27_AdvanceBeforeEachUpdate ==
    (variant \in {"beacon", "blinker"} /\ raised = [kind |-> "Exception", at |-> "update"]) =>
        /\ rpc = "returned"
        /\ generation - entry.generation = UpdatesDone + 1

\* the second update call of the Beacon's display failed
C27_Witness ==
    /\ variant = "beacon"
    /\ raised = [kind |-> "Exception", at |-> "update"]
    /\ UpdatesDone = 1
    /\ generation = entry.generation + 2
    /\ rpc = "returned"

\* the Text of generation g of the running call: the rule applied to the grid
\* the call started with
TextOfGeneration(g) ==
    GridText(RuleTimes(entry.grid, boundary, g - entry.generation), g, height, width)

\* C28: as long as no interrupt or failure has occurred, when the Advance
\* that produces generation g+1 is executed the grid of every generation up
\* to g, from the seeded one on, has been handed to the live display.
C28_NoGenerationSkipped ==
    (rpc \in {"step", "counter"} /\ raised.kind = "none") =>
        \A g \in entry.generation..generation :
            \E i \in 1..Len(shown) : shown[i] = TextOfGeneration(g)

\* the Beacon loop about to make its second Advance: the seeded grid went to
\* the display through the Live constructor, generation 1 through update
C28_Witness ==
    /\ variant = "beacon"
    /\ rpc = "step" /\ raised.kind = "none"
    /\ generation = entry.generation + 1
    /\ grid # entry.grid
    /\ shown = << TextOfGeneration(entry.generation), TextOfGeneration(generation) >>

\* g with its rows moved down by a and its columns moved right by b, cyclically
Shift(g, a, b) ==
    LET h == Cardinality(Rows(g))
        w == Cardinality(Cols(g))
    IN  [r \in Rows(g) |-> [c \in Cols(g) |-> g[(r - a) % h][(c - b) % w]]]

\* C29: on the torus, advancing a cyclically shifted grid gives the shifted
\* result of advancing the grid, for every grid and every shift of rows and
\* columns.
C29_AdvanceCommutesWithShifts ==
    (op = "advance" /\ boundary = "wrap") =>
        \A a \in 0..(height - 1), b \in 0..(width - 1) :
            NextGrid(Shift(prev, a, b), "wrap") = Shift(grid, a, b)

\* an Advance on a 3x3 torus that leaves live cells, and a shift by (1, 2)
\* that moves both the grid before and the grid after
C29_Witness ==
    /\ op = "advance" /\ boundary = "wrap"
    /\ height = 3 /\ width = 3
    /\ LiveCells(grid) # {}
    /\ Shift(prev, 1, 2) # prev
    /\ Shift(grid, 1, 2) # grid
    /\ NextGrid(Shift(prev, 1, 2), "wrap") = Shift(grid, 1, 2)

\* C30: a grid with exactly one live cell. Under 'fill' the cell is dead
\* after one Advance for every grid size; under 'wrap' it is dead when both
\* dimensions are >= 2 or both are 1, and it survives, counting itself twice,
\* when exactly one of height and width is 1.
C30_LoneCellOnDegenerateGrids ==
    op = "advance" =>
        \A t \in Cells(height, width) :
            LiveCells(prev) = {t} =>
                LET itself == get_live_neighbor_count(prev, boundary)[t[1]][t[2]]
                    oneDimIsOne == (height = 1) # (width = 1)
                IN  IF boundary = "wrap" /\ oneDimIsOne
                    THEN grid[t[1]][t[2]] = 1 /\ itself = 2
                    ELSE grid[t[1]][t[2]] = 0

\* the lone cell of a 1x3 torus has survived an Advance
C30_Witness ==
    /\ op = "advance" /\ boundary = "wrap"
    /\ height = 1 /\ width = 3
    /\ LiveCells(prev) = { <<0, 1>> }
    /\ get_live_neighbor_count(prev, boundary)[0][1] = 2
    /\ grid[0][1] = 1

====
